---- MODULE Spec2Model ----
\* A verification model of the multi-priority FIFO queue of src/queue.go:
\* four slices guarded by one mutex, plus a capacity-1 signal channel.
\* Every method is modelled as the sequence of its statements between
\* q.Lock() and the deferred q.Unlock(); a consumer's receive on the signal
\* channel is a step of its own, taken without the lock.
EXTENDS Integers, Sequences, FiniteSets, TLC

\* ---------------------------------------------------------------- bounds
\* Number of goroutines using the queue.
NThreads == 2
\* Number of append calls made in one run (the slices themselves are unbounded).
MaxAppends == 3
\* Number of channel identities the heap of channels can hold.
MaxChans == 2

\* Goroutines that only ever run the loop  ch := q.Signal(); for { <-ch; q.Next() }
NWaiters == 3

\* ----------------------------------------------------- program constants
PriorityLow == 0
PriorityNormal == 1
PriorityHigh == 2
PriorityCritical == 3
\* make(chan struct{}, 1): the buffer size of the signal channel.
ChanCap == 1
\* The nil item returned by Next and Peek on an empty queue.
Nil == 0
\* The zero value of sync.Mutex: nobody holds it.
Unlocked == 0

Threads == 1..NThreads
Waiters == (NThreads + 1)..(NThreads + NWaiters)
Goroutines == Threads \cup Waiters
ChanIds == 1..MaxChans
Priorities == {PriorityLow, PriorityNormal, PriorityHigh, PriorityCritical}

VARIABLES
    low, norm, high, crit,  \* q.low, q.norm, q.high, q.crit
    signal,                 \* q.signal: the identity of the queue's channel
    chanbuf,                \* number of tokens buffered in each channel
    lock,                   \* the embedded sync.Mutex: Unlocked or its holder
    pc,                     \* where each goroutine stands
    arg,                    \* (data, priority) of the append a goroutine runs
    ret,                    \* the values the running method is about to return
    woken,                  \* goroutines that received a token and have not
                            \* called Next or Signal since
    handles,                \* the channels Signal() has handed out so far
    appended,               \* log: priority of the i-th append, in lock order
    popped,                 \* log: items returned by found Next calls, in lock order
    batch,                  \* no append has taken place after the first pop
    peeked,                 \* what the last Peek returned, while no other
                            \* operation than a Next has started since
    ctx,                    \* what each goroutine's calls are made from: the
                            \* top level, Process's loop, or a callback
    called,                 \* log: items the running Process passed to its
                            \* callback, in order
    procStart,              \* the queue content when Process was called alone,
                            \* in the order repeated Next calls return it
    taken                   \* items returned by Next calls other than those
                            \* of Process's loop

vars == <<low, norm, high, crit, signal, chanbuf, lock, pc, arg, ret,
          woken, handles, appended, popped, batch, peeked,
          ctx, called, procStart, taken>>
slices == <<low, norm, high, crit>>
logs == <<appended, popped, batch>>
NoPeek == <<>>
locals == <<arg, ret>>
proc == <<ctx, called, procStart, taken>>

\* ------------------------------------------------------------- helpers
\* NewQueue: the one channel the constructor makes.
NewChan == 1

\* A length that leaves out the critical level.
lenWithoutLock_noCrit(l, n, h, c) == Len(l) + Len(n) + Len(h)

\* lenWithoutLock
lenWithoutLock(l, n, h, c) == Len(l) + Len(n) + Len(h) + Len(c)

\* A send that is skipped: the token is never deposited.
TrySend_skipped(b) == b

\* A send that ignores the capacity of the buffer.
TrySend_noCap(b) == b + 1

\* select { case ch <- struct{}{}: default: } on a buffer holding b tokens.
TrySend(b) == IF b < ChanCap THEN b + 1 ELSE b

\* A receive that reports a token but leaves it in the buffer.
TryRecv_noop(b) == b

\* select { case <-ch: default: } on a buffer holding b tokens.
TryRecv(b) == IF b > 0 THEN b - 1 ELSE b

\* A prepSignal that forgets it took a token: the token is not put back.
prepSignal_noPutBack(b, qlen) ==
    IF b > 0 THEN TryRecv(b) ELSE IF qlen > 0 THEN TrySend(b) ELSE b

\* A prepSignal that only puts back the token it took and never looks at
\* the length of the queue.
prepSignal_always(b, qlen) == TrySend(TryRecv(b))

prepSignal_ignoreLen(b, qlen) == IF b > 0 THEN TrySend(TryRecv(b)) ELSE b

\* prepSignal on a buffer holding b tokens, with qlen items queued.
prepSignal(b, qlen) ==
    LET got == b > 0
        rest == TryRecv(b)
        send == got \/ (~got /\ qlen > 0)
    IN  IF send THEN TrySend(rest) ELSE rest

\* A switch that pushes at the front of the slice.
Push_front(l, n, h, c, d, p) ==
    CASE p = PriorityLow      -> <<(<<d>> \o l), n, h, c>>
      [] p = PriorityNormal   -> <<l, (<<d>> \o n), h, c>>
      [] p = PriorityHigh     -> <<l, n, (<<d>> \o h), c>>
      [] p = PriorityCritical -> <<l, n, h, (<<d>> \o c)>>
      [] OTHER                -> <<l, n, h, c>>

\* A switch with a default case that files unknown priorities under Low.
Push_defaultLow(l, n, h, c, d, p) ==
    CASE p = PriorityNormal   -> <<l, Append(n, d), h, c>>
      [] p = PriorityHigh     -> <<l, n, Append(h, d), c>>
      [] p = PriorityCritical -> <<l, n, h, Append(c, d)>>
      [] OTHER                -> <<Append(l, d), n, h, c>>

\* The switch of append: the four slices after pushing d at priority p.
\* A priority outside the four cases matches no case and stores nothing.
Push(l, n, h, c, d, p) ==
    CASE p = PriorityLow      -> <<Append(l, d), n, h, c>>
      [] p = PriorityNormal   -> <<l, Append(n, d), h, c>>
      [] p = PriorityHigh     -> <<l, n, Append(h, d), c>>
      [] p = PriorityCritical -> <<l, n, h, Append(c, d)>>
      [] OTHER                -> <<l, n, h, c>>

\* A reslice that forgets to advance: the head stays in the slice.
Reslice_keepHead(s) == s

\* s[1:]
Reslice(s) == Tail(s)

\* An if-chain that tests the normal level before the high level.
NextSelect_normBeforeHigh(l, n, h, c) ==
    IF Len(c) > 0 THEN [data |-> c[1], ok |-> TRUE, q |-> <<l, n, h, Tail(c)>>]
    ELSE IF Len(n) > 0 THEN [data |-> n[1], ok |-> TRUE, q |-> <<l, Tail(n), h, c>>]
    ELSE IF Len(h) > 0 THEN [data |-> h[1], ok |-> TRUE, q |-> <<l, n, Tail(h), c>>]
    ELSE IF Len(l) > 0 THEN [data |-> l[1], ok |-> TRUE, q |-> <<Tail(l), n, h, c>>]
    ELSE [data |-> Nil, ok |-> FALSE, q |-> <<l, n, h, c>>]

\* The if-chain of Next: the returned pair and the four slices afterwards.
NextSelect(l, n, h, c) ==
    IF Len(c) > 0 THEN [data |-> c[1], ok |-> TRUE, q |-> <<l, n, h, Reslice(c)>>]
    ELSE IF Len(h) > 0 THEN [data |-> h[1], ok |-> TRUE, q |-> <<l, n, Reslice(h), c>>]
    ELSE IF Len(n) > 0 THEN [data |-> n[1], ok |-> TRUE, q |-> <<l, Reslice(n), h, c>>]
    ELSE IF Len(l) > 0 THEN [data |-> l[1], ok |-> TRUE, q |-> <<Reslice(l), n, h, c>>]
    ELSE [data |-> Nil, ok |-> FALSE, q |-> <<l, n, h, c>>]

\* An if-chain that looks at the high level before the critical level.
PeekSelect_highFirst(l, n, h, c) ==
    IF Len(h) > 0 THEN <<h[1], TRUE>>
    ELSE IF Len(c) > 0 THEN <<c[1], TRUE>>
    ELSE IF Len(n) > 0 THEN <<n[1], TRUE>>
    ELSE IF Len(l) > 0 THEN <<l[1], TRUE>>
    ELSE <<Nil, FALSE>>

\* The if-chain of Peek: the returned pair.
PeekSelect(l, n, h, c) ==
    IF Len(c) > 0 THEN <<c[1], TRUE>>
    ELSE IF Len(h) > 0 THEN <<h[1], TRUE>>
    ELSE IF Len(n) > 0 THEN <<n[1], TRUE>>
    ELSE IF Len(l) > 0 THEN <<l[1], TRUE>>
    ELSE <<Nil, FALSE>>

\* A Signal that returns a channel made anew instead of q.signal.
SignalReturn_fresh(sig) == sig + 1

\* Signal: return q.signal
SignalReturn(sig) == sig

\* Empty: q.Len() == 0
EmptyResult(qlen) == qlen = 0

\* A Lock() that never waits.
CanLock_always == TRUE

\* q.Lock() succeeds only on a free mutex.
CanLock == lock = Unlocked

QLen == lenWithoutLock(low, norm, high, crit)

\* ---------------------------------------------------------------- Init
\* NewQueue: four nil slices, a fresh empty channel, an unlocked mutex.
Init ==
    /\ low = <<>> /\ norm = <<>> /\ high = <<>> /\ crit = <<>>
    /\ signal = NewChan
    /\ chanbuf = [c \in ChanIds |-> 0]
    /\ lock = Unlocked
    /\ pc = [t \in Goroutines |-> "idle"]
    /\ arg = [t \in Goroutines |-> <<>>]
    /\ ret = [t \in Goroutines |-> <<>>]
    /\ woken = [t \in Goroutines |-> FALSE]
    /\ handles = {}
    /\ appended = <<>>
    /\ popped = <<>>
    /\ batch = TRUE
    /\ peeked = <<>>
    /\ ctx = [t \in Goroutines |-> "top"]
    /\ called = <<>>
    /\ procStart = <<>>
    /\ taken = {}

\* ------------------------------------------------------------- append
\* The driver tags the k-th appended item with the serial number k.
StartAppend(t, p) ==
    /\ pc[t] = "idle" /\ CanLock
    /\ Len(appended) < MaxAppends
    /\ lock' = t
    /\ pc' = [pc EXCEPT ![t] = "append"]
    /\ arg' = [arg EXCEPT ![t] = <<Len(appended) + 1, p>>]
    /\ UNCHANGED <<slices, signal, chanbuf, ret, woken, handles, logs>>
    /\ peeked' = NoPeek
    /\ UNCHANGED proc

DefaultPriority_low == PriorityLow

\* The priority Append passes on: q.append(data, PriorityNormal)
DefaultPriority == PriorityNormal

\* Append(data): q.append(data, PriorityNormal)
AppendCall(t) == StartAppend(t, DefaultPriority)

\* AppendPriority(data, priority): q.append(data, priority)
AppendPriorityCall(t) == \E p \in Priorities : StartAppend(t, p)

\* switch priority { ... }
AppendPush(t) ==
    /\ pc[t] = "append"
    /\ LET q == Push(low, norm, high, crit, arg[t][1], arg[t][2]) IN
        low' = q[1] /\ norm' = q[2] /\ high' = q[3] /\ crit' = q[4]
    /\ appended' = Append(appended, arg[t][2])
    /\ batch' = (batch /\ popped = <<>>)
    /\ pc' = [pc EXCEPT ![t] = "append_signal"]
    /\ UNCHANGED <<signal, chanbuf, lock, locals, woken, handles, popped>>
    /\ UNCHANGED peeked
    /\ UNCHANGED proc

\* select { case q.signal <- struct{}{}: default: }
AppendSignal(t) ==
    /\ pc[t] = "append_signal"
    /\ chanbuf' = [chanbuf EXCEPT ![signal] = TrySend(chanbuf[signal])]
    /\ pc' = [pc EXCEPT ![t] = "append_unlock"]
    /\ UNCHANGED <<slices, signal, lock, locals, woken, handles, logs>>
    /\ UNCHANGED peeked
    /\ UNCHANGED proc

\* defer q.Unlock()
AppendUnlock(t) ==
    /\ pc[t] = "append_unlock"
    /\ lock' = Unlocked
    /\ pc' = [pc EXCEPT ![t] = "idle"]
    /\ arg' = [arg EXCEPT ![t] = <<>>]
    /\ UNCHANGED <<slices, signal, chanbuf, ret, woken, handles, logs>>
    /\ UNCHANGED peeked
    /\ UNCHANGED proc

\* --------------------------------------------------------------- Next
NextCall(t) ==
    /\ pc[t] = "idle" /\ CanLock
    /\ lock' = t
    /\ pc' = [pc EXCEPT ![t] = "next"]
    /\ woken' = [woken EXCEPT ![t] = FALSE]
    /\ UNCHANGED <<slices, signal, chanbuf, locals, handles, logs>>
    /\ UNCHANGED peeked
    /\ UNCHANGED proc

\* The if-chain: take the head of the first non-empty level, or go to drain.
NextPop(t) ==
    /\ pc[t] = "next"
    /\ LET r == NextSelect(low, norm, high, crit) IN
        /\ low' = r.q[1] /\ norm' = r.q[2] /\ high' = r.q[3] /\ crit' = r.q[4]
        /\ IF r.ok
           THEN /\ ret' = [ret EXCEPT ![t] = <<r.data, TRUE>>]
                /\ popped' = Append(popped, r.data)
                /\ taken' = IF ctx[t] = "process" THEN taken
                                                 ELSE taken \cup {r.data}
                /\ pc' = [pc EXCEPT ![t] = "next_prep"]
           ELSE /\ UNCHANGED <<ret, popped, taken>>
                /\ pc' = [pc EXCEPT ![t] = "next_drain"]
    /\ UNCHANGED <<signal, chanbuf, lock, arg, woken, handles, appended, batch>>
    /\ UNCHANGED peeked
    /\ UNCHANGED <<ctx, called, procStart>>

NextDrain_skipped(t) ==
    /\ pc[t] = "next_drain"
    /\ pc' = [pc EXCEPT ![t] = "next_unlock"]
    /\ ret' = [ret EXCEPT ![t] = <<Nil, FALSE>>]
    /\ UNCHANGED <<slices, signal, chanbuf, lock, arg, woken, handles, logs>>
    /\ UNCHANGED peeked
    /\ UNCHANGED proc

\* q.drain(): one turn of the loop; the default case returns (nil, false).
NextDrain(t) ==
    /\ pc[t] = "next_drain"
    /\ IF chanbuf[signal] > 0
       THEN /\ chanbuf' = [chanbuf EXCEPT ![signal] = TryRecv(chanbuf[signal])]
            /\ UNCHANGED <<pc, ret>>
       ELSE /\ pc' = [pc EXCEPT ![t] = "next_unlock"]
            /\ ret' = [ret EXCEPT ![t] = <<Nil, FALSE>>]
            /\ UNCHANGED chanbuf
    /\ UNCHANGED <<slices, signal, lock, arg, woken, handles, logs>>
    /\ UNCHANGED peeked
    /\ UNCHANGED proc

\* q.prepSignal() after a successful pop.
NextPrep(t) ==
    /\ pc[t] = "next_prep"
    /\ chanbuf' = [chanbuf EXCEPT ![signal] = prepSignal(chanbuf[signal], QLen)]
    /\ pc' = [pc EXCEPT ![t] = "next_unlock"]
    /\ UNCHANGED <<slices, signal, lock, locals, woken, handles, logs>>
    /\ UNCHANGED peeked
    /\ UNCHANGED proc

\* The deferred Unlock of a Next called from the top level or a callback.
NextUnlock(t) ==
    /\ pc[t] = "next_unlock"
    /\ ctx[t] # "process"
    /\ lock' = Unlocked
    /\ pc' = [pc EXCEPT ![t] = "idle"]
    /\ ret' = [ret EXCEPT ![t] = <<>>]
    /\ UNCHANGED <<slices, signal, chanbuf, arg, woken, handles, logs>>
    /\ peeked' = NoPeek
    /\ UNCHANGED proc

\* ------------------------------------------------------------- Process
\* The items of a sequence.
Elems(s) == {s[i] : i \in 1..Len(s)}

\* The items repeated Next calls return from the given content, in order.
RECURSIVE DrainOrder(_, _, _, _)
DrainOrder(l, n, h, c) ==
    LET r == NextSelect(l, n, h, c) IN
        IF r.ok THEN <<r.data>> \o DrainOrder(r.q[1], r.q[2], r.q[3], r.q[4])
                ELSE <<>>

\* Process(callback) is entered; its first statement is a call of q.Next().
\* The driver may record the content it is called on.
ProcessEnter(t, content) ==
    /\ pc[t] = "idle" /\ ctx[t] = "top"
    /\ ctx' = [ctx EXCEPT ![t] = "process"]
    /\ pc' = [pc EXCEPT ![t] = "process_next"]
    /\ called' = <<>>
    /\ procStart' = content
    /\ UNCHANGED <<slices, signal, chanbuf, lock, locals, woken, handles, logs>>
    /\ UNCHANGED <<peeked, taken>>

\* Process called with nothing else running: the content is recorded.
ProcessCallAlone(t) == ProcessEnter(t, DrainOrder(low, norm, high, crit))

\* Process called among other goroutines.
ProcessCall(t) == ProcessEnter(t, <<>>)

\* element, ok := q.Next()  /  element, ok = q.Next(): the Lock of that call.
ProcessNextCall(t) ==
    /\ pc[t] = "process_next" /\ CanLock
    /\ lock' = t
    /\ pc' = [pc EXCEPT ![t] = "next"]
    /\ woken' = [woken EXCEPT ![t] = FALSE]
    /\ UNCHANGED <<slices, signal, chanbuf, locals, handles, logs>>
    /\ UNCHANGED peeked
    /\ UNCHANGED proc

\* A Next that returns an element to Process's loop without unlocking.
ProcessNextUnlock_keepLock(t) ==
    /\ pc[t] = "next_unlock" /\ ctx[t] = "process"
    /\ lock' = (IF ret[t][2] THEN lock ELSE Unlocked)
    /\ pc' = [pc EXCEPT ![t] = "process_loop"]
    /\ UNCHANGED <<slices, signal, chanbuf, locals, woken, handles, logs>>
    /\ peeked' = NoPeek
    /\ UNCHANGED proc

\* The deferred Unlock of the q.Next() that Process's loop called; element
\* and ok (kept in ret) are now locals of Process, and the mutex is free.
ProcessNextUnlock(t) ==
    /\ pc[t] = "next_unlock" /\ ctx[t] = "process"
    /\ lock' = Unlocked
    /\ pc' = [pc EXCEPT ![t] = "process_loop"]
    /\ UNCHANGED <<slices, signal, chanbuf, locals, woken, handles, logs>>
    /\ peeked' = NoPeek
    /\ UNCHANGED proc

\* A loop that overwrites the element before the callback sees it: the
\* callback runs, but not for the item the Next returned.
ProcessLoopTest_lostItem(t) ==
    /\ pc[t] = "process_loop" /\ ctx[t] = "process"
    /\ IF ret[t][2]
       THEN /\ UNCHANGED called
            /\ ctx' = [ctx EXCEPT ![t] = "callback"]
            /\ UNCHANGED <<procStart, taken>>
       ELSE /\ ctx' = [ctx EXCEPT ![t] = "top"]
            /\ called' = <<>> /\ procStart' = <<>>
            /\ taken' = taken \cup Elems(called)
    /\ pc' = [pc EXCEPT ![t] = "idle"]
    /\ ret' = [ret EXCEPT ![t] = <<>>]
    /\ UNCHANGED <<slices, signal, chanbuf, lock, arg, woken, handles, logs>>
    /\ UNCHANGED peeked

\* "for ok", run without the mutex: with ok the callback is entered with
\* the element, without ok Process returns, and the logs of this Process
\* call are closed.
ProcessLoopTest(t) ==
    /\ pc[t] = "process_loop" /\ ctx[t] = "process"
    /\ IF ret[t][2]
       THEN /\ called' = Append(called, ret[t][1])
            /\ ctx' = [ctx EXCEPT ![t] = "callback"]
            /\ UNCHANGED <<procStart, taken>>
       ELSE /\ ctx' = [ctx EXCEPT ![t] = "top"]
            /\ called' = <<>> /\ procStart' = <<>>
            /\ taken' = taken \cup Elems(called)
    /\ pc' = [pc EXCEPT ![t] = "idle"]
    /\ ret' = [ret EXCEPT ![t] = <<>>]
    /\ UNCHANGED <<slices, signal, chanbuf, lock, arg, woken, handles, logs>>
    /\ UNCHANGED peeked

\* A loop body that runs once: "if ok" where the code has "for ok".
CallbackReturn_noLoop(t) ==
    /\ pc[t] = "idle" /\ ctx[t] = "callback"
    /\ ctx' = [ctx EXCEPT ![t] = "top"]
    /\ called' = <<>> /\ procStart' = <<>>
    /\ taken' = taken \cup Elems(called)
    /\ UNCHANGED <<slices, signal, chanbuf, lock, pc, locals, woken, handles, logs>>
    /\ UNCHANGED peeked

\* callback(element) returns; the loop goes on with the next q.Next().
CallbackReturn(t) ==
    /\ pc[t] = "idle" /\ ctx[t] = "callback"
    /\ ctx' = [ctx EXCEPT ![t] = "process"]
    /\ pc' = [pc EXCEPT ![t] = "process_next"]
    /\ UNCHANGED <<slices, signal, chanbuf, lock, locals, woken, handles, logs>>
    /\ UNCHANGED <<peeked, called, procStart, taken>>

\* --------------------------------------------------------------- Peek
PeekCall(t) ==
    /\ pc[t] = "idle" /\ CanLock
    /\ lock' = t
    /\ pc' = [pc EXCEPT ![t] = "peek"]
    /\ UNCHANGED <<slices, signal, chanbuf, locals, woken, handles, logs>>
    /\ peeked' = NoPeek
    /\ UNCHANGED proc

PeekRead(t) ==
    /\ pc[t] = "peek"
    /\ ret' = [ret EXCEPT ![t] = PeekSelect(low, norm, high, crit)]
    /\ pc' = [pc EXCEPT ![t] = "peek_unlock"]
    /\ UNCHANGED <<slices, signal, chanbuf, lock, arg, woken, handles, logs>>
    /\ peeked' = PeekSelect(low, norm, high, crit)
    /\ UNCHANGED proc

PeekUnlock(t) ==
    /\ pc[t] = "peek_unlock"
    /\ lock' = Unlocked
    /\ pc' = [pc EXCEPT ![t] = "idle"]
    /\ ret' = [ret EXCEPT ![t] = <<>>]
    /\ UNCHANGED <<slices, signal, chanbuf, arg, woken, handles, logs>>
    /\ UNCHANGED peeked
    /\ UNCHANGED proc

\* ------------------------------------------------------------- Signal
SignalCall(t) ==
    /\ pc[t] = "idle" /\ CanLock
    /\ lock' = t
    /\ pc' = [pc EXCEPT ![t] = "signal"]
    /\ woken' = [woken EXCEPT ![t] = FALSE]
    /\ UNCHANGED <<slices, signal, chanbuf, locals, handles, logs>>
    /\ peeked' = NoPeek
    /\ UNCHANGED proc

\* q.prepSignal(); return q.signal
SignalPrep(t) ==
    /\ pc[t] = "signal"
    /\ chanbuf' = [chanbuf EXCEPT ![signal] = prepSignal(chanbuf[signal], QLen)]
    /\ ret' = [ret EXCEPT ![t] = <<SignalReturn(signal)>>]
    /\ pc' = [pc EXCEPT ![t] = "signal_unlock"]
    /\ UNCHANGED <<slices, signal, lock, arg, woken, handles, logs>>
    /\ UNCHANGED peeked
    /\ UNCHANGED proc

SignalUnlock(t) ==
    /\ pc[t] = "signal_unlock"
    /\ lock' = Unlocked
    /\ handles' = handles \cup {ret[t][1]}
    /\ pc' = [pc EXCEPT ![t] = "idle"]
    /\ ret' = [ret EXCEPT ![t] = <<>>]
    /\ UNCHANGED <<slices, signal, chanbuf, arg, woken, logs>>
    /\ UNCHANGED peeked
    /\ UNCHANGED proc

\* -------------------------------------------------------- Len and Empty
LenCall(t) ==
    /\ pc[t] = "idle" /\ CanLock
    /\ lock' = t
    /\ pc' = [pc EXCEPT ![t] = "len"]
    /\ UNCHANGED <<slices, signal, chanbuf, locals, woken, handles, logs>>
    /\ peeked' = NoPeek
    /\ UNCHANGED proc

LenRead(t) ==
    /\ pc[t] = "len"
    /\ ret' = [ret EXCEPT ![t] = <<lenWithoutLock(low, norm, high, crit)>>]
    /\ pc' = [pc EXCEPT ![t] = "len_unlock"]
    /\ UNCHANGED <<slices, signal, chanbuf, lock, arg, woken, handles, logs>>
    /\ UNCHANGED peeked
    /\ UNCHANGED proc

LenUnlock(t) ==
    /\ pc[t] = "len_unlock"
    /\ lock' = Unlocked
    /\ pc' = [pc EXCEPT ![t] = "idle"]
    /\ ret' = [ret EXCEPT ![t] = <<>>]
    /\ UNCHANGED <<slices, signal, chanbuf, arg, woken, handles, logs>>
    /\ UNCHANGED peeked
    /\ UNCHANGED proc

\* Empty calls q.Len() and compares its result with 0.
EmptyCall(t) ==
    /\ pc[t] = "idle" /\ CanLock
    /\ lock' = t
    /\ pc' = [pc EXCEPT ![t] = "empty"]
    /\ UNCHANGED <<slices, signal, chanbuf, locals, woken, handles, logs>>
    /\ peeked' = NoPeek
    /\ UNCHANGED proc

EmptyRead(t) ==
    /\ pc[t] = "empty"
    /\ LET qlen == lenWithoutLock(low, norm, high, crit) IN
        ret' = [ret EXCEPT ![t] = <<EmptyResult(qlen), qlen>>]
    /\ pc' = [pc EXCEPT ![t] = "empty_unlock"]
    /\ UNCHANGED <<slices, signal, chanbuf, lock, arg, woken, handles, logs>>
    /\ UNCHANGED peeked
    /\ UNCHANGED proc

EmptyUnlock(t) ==
    /\ pc[t] = "empty_unlock"
    /\ lock' = Unlocked
    /\ pc' = [pc EXCEPT ![t] = "idle"]
    /\ ret' = [ret EXCEPT ![t] = <<>>]
    /\ UNCHANGED <<slices, signal, chanbuf, arg, woken, handles, logs>>
    /\ UNCHANGED peeked
    /\ UNCHANGED proc

\* ------------------------------------------------------------ consumers
\* <-ch on a channel that Signal() handed out: blocks until a token is there.
Recv(t) ==
    /\ pc[t] = "idle"
    /\ \E ch \in handles :
        /\ chanbuf[ch] > 0
        /\ chanbuf' = [chanbuf EXCEPT ![ch] = chanbuf[ch] - 1]
    /\ woken' = [woken EXCEPT ![t] = TRUE]
    /\ UNCHANGED <<slices, signal, lock, pc, locals, handles, logs>>
    /\ UNCHANGED peeked
    /\ UNCHANGED proc

\* ------------------------------------------------- reading the two logs
\* The priority the item with serial number i was appended at.
LevelOf(i) == appended[i]

\* The items returned by the first k found Next calls.
PoppedFirst(k) == {popped[j] : j \in 1..k}

\* The serial numbers appended at priority p, in append order.
IdsAt(app, p) == SelectSeq([i \in 1..Len(app) |-> i], LAMBDA i : app[i] = p)

\* Priority descending, append order within a priority.
Expected(app) ==
    IdsAt(app, PriorityCritical) \o IdsAt(app, PriorityHigh)
        \o IdsAt(app, PriorityNormal) \o IdsAt(app, PriorityLow)

\* The items of all four slices.
Queued == {s[i] : <<s, i>> \in
            UNION {{<<s, i>> : i \in 1..Len(s)} : s \in {low, norm, high, crit}}}

\* ---------------------------------------------------------------- C1
\* C1: a Next call that returns found has removed and returned the item that
\* was appended first among the pending items of the highest priority that
\* had a pending item, whatever was appended before it at lower priorities;
\* and when every append came before the first pop, the items returned so far
\* are the leading part of "priority descending, append order within each".
C1_NextOrder ==
    /\ \A t \in Threads :
        pc[t] = "next_prep" =>
            LET k == Len(popped)
                d == ret[t][1]
                pending == (1..Len(appended)) \ PoppedFirst(k - 1)
            IN  /\ ret[t][2] = TRUE
                /\ popped[k] = d
                /\ d \in pending
                /\ d \notin Queued
                /\ \A i \in pending :
                    \/ LevelOf(i) < LevelOf(d)
                    \/ LevelOf(i) = LevelOf(d) /\ d <= i
    /\ batch => popped = SubSeq(Expected(appended), 1, Len(popped))

\* A low item appended first, then a critical one, then another low one,
\* all three returned: critical first, the two low ones in append order.
C1_Witness ==
    /\ appended = <<PriorityLow, PriorityCritical, PriorityLow>>
    /\ popped = <<2, 1, 3>>
    /\ batch
    /\ \E t \in Threads : pc[t] = "next_prep" /\ ret[t] = <<3, TRUE>>

\* ---------------------------------------------------------------- C2
\* C2: under every interleaving of appending and popping goroutines no item
\* is returned twice, every returned item was appended before, and when a
\* Next call returns not-found every item appended so far has been returned
\* exactly once.
C2_ExactlyOnce ==
    /\ \A i, j \in 1..Len(popped) : i # j => popped[i] # popped[j]
    /\ \A j \in 1..Len(popped) : popped[j] \in 1..Len(appended)
    /\ \A t \in Threads :
        (pc[t] = "next_drain" \/ (pc[t] = "next_unlock" /\ ret[t] = <<Nil, FALSE>>))
            => PoppedFirst(Len(popped)) = 1..Len(appended)

\* All appended items were returned, and a further Next reports not-found.
C2_Witness ==
    /\ Len(appended) = MaxAppends
    /\ Len(popped) = MaxAppends
    /\ \E t \in Threads : pc[t] = "next_unlock" /\ ret[t] = <<Nil, FALSE>>

\* ------------------------------------------- producers and looping consumers
\* One goroutine appends; every other goroutine runs
\*     ch := q.Signal(); for { <-ch; q.Next() }
\* (the channel is shared: whoever calls Signal() first hands it to the rest).
Producers == {1}
Consumers == Threads \ Producers

LiveProduce(t) == t \in Producers /\ (AppendCall(t) \/ AppendPriorityCall(t))

LiveAppendStep(t) ==
    t \in Producers /\ (AppendPush(t) \/ AppendSignal(t) \/ AppendUnlock(t))

LiveObtain(t) ==
    \/ t \in Consumers /\ handles = {} /\ SignalCall(t)
    \/ t \in Consumers /\ (SignalPrep(t) \/ SignalUnlock(t))

LiveWait(t) == t \in Consumers /\ ~woken[t] /\ Recv(t)

LiveTake(t) ==
    \/ t \in Consumers /\ woken[t] /\ NextCall(t)
    \/ t \in Consumers /\ (NextPop(t) \/ NextDrain(t) \/ NextPrep(t) \/ NextUnlock(t))

LiveNext ==
    \E t \in Threads :
        \/ LiveProduce(t) \/ LiveAppendStep(t)
        \/ LiveObtain(t) \/ LiveWait(t) \/ LiveTake(t)

\* A goroutine that can run is eventually run: a started append finishes, and
\* a consumer goes on with its loop whenever it is not blocked. Nothing forces
\* a producer to start another append.
LiveFairness ==
    \A t \in Threads :
        /\ WF_vars(LiveAppendStep(t))
        /\ WF_vars(LiveObtain(t))
        /\ WF_vars(LiveWait(t))
        /\ WF_vars(LiveTake(t))

LiveSpec == Init /\ [][LiveNext]_vars /\ LiveFairness

\* ---------------------------------------------------------------- C3
\* C3: with consumers that loop "receive one token, then call Next once",
\* every appended item is eventually returned by a Next call, however the
\* appends coalesced into tokens.
C3_EveryItemDelivered ==
    \A i \in 1..MaxAppends :
        (Len(appended) >= i) ~> (i \in PoppedFirst(Len(popped)))

\* All items were appended before the first pop (so their deposits left at
\* most one token in the channel at a time), and all of them were returned.
C3_Witness ==
    /\ batch
    /\ Len(appended) = MaxAppends
    /\ Len(popped) = MaxAppends
    /\ \A t \in Threads : pc[t] = "idle"

\* ---------------------------------------------------------------- C4
\* A goroutine holds the lock and has not yet finished its channel statements.
InSignalUpdate ==
    \E t \in Threads :
        pc[t] \in {"append", "append_signal", "next", "next_prep", "next_drain", "signal"}

\* A non-empty queue with an empty mailbox: some consumer holds the token.
TokenAccounted ==
    (~InSignalUpdate /\ QLen > 0 /\ chanbuf[signal] = 0) => \E u \in Threads : woken[u]

\* C4: the last channel statement of append, Next and Signal leaves a token
\* in the mailbox whenever the queue is then non-empty, and the only states
\* with a non-empty queue and an empty mailbox (no call being in the middle of
\* its update) are those where a consumer has received the token and has not
\* called Next or Signal since.
C4_NoMissedWakeup ==
    [][ /\ \A t \in Threads :
            (AppendSignal(t) \/ NextPrep(t) \/ SignalPrep(t))
                => (QLen' > 0 => chanbuf'[signal'] = 1)
        /\ TokenAccounted' ]_vars

\* The queue holds items, the mailbox is empty, nobody holds the lock: a
\* consumer took the token and has not acted on it yet.
C4_Witness ==
    /\ lock = Unlocked
    /\ QLen > 0
    /\ chanbuf[signal] = 0
    /\ \E u \in Threads : woken[u]

\* ---------------------------------------------------------------- C5
SignalStep(t) == SignalCall(t) \/ SignalPrep(t) \/ SignalUnlock(t)

\* C5 as stated: when Signal() has repaired the mailbox it holds one token if
\* the queue is non-empty and none if the queue is empty, and Signal() leaves
\* the four sequences alone.
C5_Original ==
    [][ \A t \in Threads :
            /\ SignalPrep(t) => chanbuf'[signal] = (IF QLen > 0 THEN 1 ELSE 0)
            /\ SignalStep(t) => UNCHANGED slices ]_vars

\* C5, amended: when Signal() has repaired the mailbox it holds exactly one
\* token if the queue is non-empty; if the queue is empty the mailbox is as
\* Signal() found it (a token left over is put back, not drained); Signal()
\* leaves the four sequences alone.
C5_SignalRepair ==
    [][ \A t \in Threads :
            /\ SignalPrep(t) =>
                chanbuf'[signal] = (IF QLen > 0 THEN 1 ELSE chanbuf[signal])
            /\ SignalStep(t) => UNCHANGED slices ]_vars

\* Signal() is about to return on an empty queue, and a token is pending.
C5_Witness ==
    \E t \in Threads :
        /\ pc[t] = "signal_unlock"
        /\ QLen = 0
        /\ Len(popped) > 0
        /\ chanbuf[signal] = 1

\* ---------------------------------------------------------------- C6
\* C6: every Signal() call returns the channel made by NewQueue, which stays
\* the queue's channel, and the deposit of an append leaves a token in every
\* channel handed out before: a handle obtained on an empty queue is ready
\* after the next append without another Signal() call.
C6_HandleReady ==
    [][ /\ signal' = NewChan
        /\ handles' \subseteq {signal'}
        /\ \A t \in Threads : pc'[t] = "signal_unlock" => ret'[t] = <<NewChan>>
        /\ \A t \in Threads :
            AppendSignal(t) => \A h \in handles : chanbuf'[h] = 1 ]_vars

\* Signal() returned while the queue was still empty (the first append holds
\* the lock since it started), and after that append's deposit the handle
\* holds a token.
C6_Witness ==
    \E t \in Threads :
        /\ pc[t] = "append_unlock"
        /\ Len(appended) = 1
        /\ popped = <<>>
        /\ handles = {NewChan}
        /\ chanbuf[NewChan] = 1

\* ---------------------------------------------------------------- C7
\* C7: the value Len() returns is the number of appends so far minus the
\* number of found Next calls and is never negative, and Empty() returns true
\* exactly when that number is 0.
C7_LenCounts ==
    /\ \A t \in Threads :
        pc[t] = "len_unlock" =>
            /\ ret[t][1] = Len(appended) - Len(popped)
            /\ ret[t][1] >= 0
    /\ \A t \in Threads :
        pc[t] = "empty_unlock" =>
            /\ ret[t][1] = (Len(appended) - Len(popped) = 0)
            /\ ret[t][1] = (QLen = 0)

\* Three appends and two found Next calls: Len() returns 1.
C7_Witness ==
    \E t \in Threads :
        /\ pc[t] = "len_unlock"
        /\ Len(appended) = 3
        /\ Len(popped) = 2
        /\ ret[t] = <<1>>

\* ---------------------------------------------------------------- C8
PeekStep(t) == PeekCall(t) \/ PeekRead(t) \/ PeekUnlock(t)

\* C8: no step of Peek changes the four sequences, the length or the mailbox;
\* Peek returns not-found exactly when all levels are empty; and a Next that
\* is the first operation to start after a Peek returns the item and the
\* found flag that Peek returned.
C8_PeekThenNext ==
    [][ \A t \in Threads :
            /\ PeekStep(t) =>
                (UNCHANGED <<slices, signal, chanbuf>> /\ QLen' = QLen)
            /\ pc'[t] = "peek_unlock" => (ret'[t][2] = FALSE <=> QLen' = 0)
            /\ (pc'[t] \in {"next_prep", "next_unlock"} /\ peeked' # NoPeek)
                => ret'[t] = peeked' ]_vars

\* A Peek on a queue holding items at two levels, then a Next that has just
\* popped the item Peek returned.
C8_Witness ==
    \E t \in Threads :
        /\ pc[t] = "next_prep"
        /\ peeked # NoPeek
        /\ ret[t] = peeked
        /\ peeked[2] = TRUE
        /\ LevelOf(peeked[1]) = PriorityHigh
        /\ Len(low) > 0

\* ---------------------------------------------------------------- C9
\* C9: the lock orders the appends and the pops; an item is returned only
\* after every item appended earlier at its priority level has been returned
\* by an earlier Next call.
C9_LevelFifo ==
    \A j \in 1..Len(popped) :
        \A a \in 1..Len(appended) :
            (a < popped[j] /\ LevelOf(a) = LevelOf(popped[j]))
                => \E i \in 1..(j - 1) : popped[i] = a

\* Two normal items with a critical one appended between them; the first
\* normal item was returned before the critical one arrived, the second after it.
C9_Witness ==
    /\ appended = <<PriorityNormal, PriorityCritical, PriorityNormal>>
    /\ popped = <<1, 2, 3>>

\* --------------------------------------------------------------- C10
\* C10: every channel holds at most one token; the deposit of an append can
\* always be taken (it never blocks) and leaves exactly one token, whether or
\* not one was there.
C10_OneToken ==
    /\ \A c \in ChanIds : chanbuf[c] \in {0, 1}
    /\ \A t \in Threads :
        pc[t] = "append_signal" =>
            /\ ENABLED AppendSignal(t)
            /\ TrySend(chanbuf[signal]) = 1
    /\ \A t \in Threads :
        (pc[t] = "append_unlock" /\ handles = {}) => chanbuf[signal] = 1

\* Every append of the run has deposited, nobody can have received (no channel
\* was handed out), and one token is pending.
C10_Witness ==
    \E t \in Threads :
        /\ pc[t] = "append_unlock"
        /\ Len(appended) = MaxAppends
        /\ popped = <<>>
        /\ handles = {}
        /\ chanbuf[signal] = 1

\* --------------------------------------------------------------- C12
\* The level of the four that holds the items of priority p.
LevelSeq(l, n, h, c, p) ==
    CASE p = PriorityCritical -> c
      [] p = PriorityHigh -> h
      [] p = PriorityNormal -> n
      [] p = PriorityLow -> l

\* C12: an append at a valid priority p is never refused; it puts the item at
\* the tail of level p, leaves the items already in level p and the other
\* three levels as they were, and raises the total length by one; Append
\* hands the append the item with priority Normal, as AppendPriority(item,
\* Normal) does.
C12_AppendFrame ==
    [][ \A t \in Threads :
            /\ AppendCall(t) => StartAppend(t, PriorityNormal)
            /\ AppendPush(t) =>
                LET d == arg[t][1]
                    p == arg[t][2]
                IN  /\ p \in Priorities
                    /\ LevelSeq(low', norm', high', crit', p)
                         = Append(LevelSeq(low, norm, high, crit, p), d)
                    /\ \A o \in Priorities \ {p} :
                         LevelSeq(low', norm', high', crit', o)
                           = LevelSeq(low, norm, high, crit, o)
                    /\ QLen' = QLen + 1 ]_vars

\* An Append call pushed its item behind an older item of level Normal while
\* another level was occupied.
C12_Witness ==
    \E t \in Threads :
        /\ pc[t] = "append_signal"
        /\ arg[t][2] = PriorityNormal
        /\ Len(norm) = 2
        /\ norm[2] = arg[t][1]
        /\ Len(crit) = 1

\* --------------------------------------------------------------- C13
\* C13 as stated: when a found Next has run its prepSignal, the mailbox holds
\* a token exactly when an item remains; a Next that removed the last item
\* leaves no token, whether or not one was there when it was called.
C13_Original ==
    [][ \A t \in Threads :
            NextPrep(t) => chanbuf'[signal] = (IF QLen > 0 THEN 1 ELSE 0) ]_vars

\* C13, amended: when a found Next has run its prepSignal, the mailbox holds
\* a token if an item remains; a Next that removed the last item leaves the
\* mailbox as it found it, so a token that was there is still there.
C13_NextRepair ==
    [][ \A t \in Threads :
            NextPrep(t) =>
                chanbuf'[signal] = (IF QLen > 0 THEN 1 ELSE chanbuf[signal]) ]_vars

\* A Next that took the last item is about to return, no channel was ever
\* handed out, and the token of the append is still in the mailbox.
C13_Witness ==
    \E t \in Threads :
        /\ pc[t] = "next_unlock"
        /\ ret[t][2] = TRUE
        /\ QLen = 0
        /\ handles = {}
        /\ chanbuf[signal] = 1

\* --------------------------------------------------------------- C14
\* C14: Next takes the not-found path exactly when all four levels are empty
\* at its check under the lock; on that path the four levels stay as they
\* are, and when the call has its result (nil, false) the mailbox holds no
\* token.
C14_NotFound ==
    [][ \A t \in Threads :
            /\ NextPop(t) =>
                /\ (pc'[t] = "next_drain") <=> (QLen = 0)
                /\ (pc'[t] = "next_prep" /\ ret'[t][2] = TRUE) <=> (QLen > 0)
            /\ pc[t] = "next_drain" => QLen = 0 /\ UNCHANGED slices
            /\ NextDrain(t) /\ pc'[t] = "next_unlock" =>
                /\ ret'[t] = <<Nil, FALSE>>
                /\ QLen' = 0
                /\ chanbuf'[signal] = 0 ]_vars

\* A Next on an emptied queue is about to return not-found; no channel was
\* handed out, so the token of the appends was still there when it started.
C14_Witness ==
    \E t \in Threads :
        /\ pc[t] = "next_unlock"
        /\ ret[t] = <<Nil, FALSE>>
        /\ handles = {}
        /\ Len(popped) = 2
        /\ Len(appended) = 2
        /\ chanbuf[signal] = 0

\* ------------------------------------------------ a pool of waiting consumers
\* Goroutine 1 appends; each goroutine of Waiters runs
\*     ch := q.Signal(); for { <-ch; q.Next() }
WakeProduce(t) == t \in Producers /\ (AppendCall(t) \/ AppendPriorityCall(t))

WakeAppendStep(t) ==
    t \in Producers /\ (AppendPush(t) \/ AppendSignal(t) \/ AppendUnlock(t))

WakeObtain(t) ==
    \/ t \in Waiters /\ handles = {} /\ SignalCall(t)
    \/ t \in Waiters /\ (SignalPrep(t) \/ SignalUnlock(t))

WakeWait(t) == t \in Waiters /\ ~woken[t] /\ Recv(t)

WakeTake(t) ==
    \/ t \in Waiters /\ woken[t] /\ NextCall(t)
    \/ t \in Waiters /\ (NextPop(t) \/ NextDrain(t) \/ NextPrep(t) \/ NextUnlock(t))

WakeNext ==
    \E t \in Goroutines :
        \/ WakeProduce(t) \/ WakeAppendStep(t)
        \/ WakeObtain(t) \/ WakeWait(t) \/ WakeTake(t)

WakeSpec == Init /\ [][WakeNext]_vars

\* C16 as stated: with the queue empty and no append under way, at most one
\* not-found Next of a woken consumer is still to come: the consumers that
\* have received a token and not yet called Next number at most one.
C16_Original ==
    (QLen = 0 /\ \A p \in Producers : pc[p] = "idle") =>
        Cardinality({t \in Waiters : woken[t]}) <= 1

\* --------------------------------------------------------------- C16
\* C16: while the queue is empty no step adds a token to the mailbox; a
\* receive needs a token and takes it, so a consumer woken on an empty queue
\* leaves every handed-out channel empty and no second consumer wakes before
\* an append;
\* a not-found Next leaves the mailbox empty.
C16_SpuriousWakeBounded ==
    [][ /\ QLen = 0 => chanbuf'[signal] <= chanbuf[signal]
        /\ \A t \in Goroutines :
            /\ Recv(t) /\ QLen = 0 =>
                /\ chanbuf[signal] = 1
                /\ chanbuf'[signal] = 0
                /\ \A ch \in handles : chanbuf'[ch] = 0
            /\ pc'[t] = "next_unlock" /\ ret'[t] = <<Nil, FALSE>> =>
                chanbuf'[signal] = 0 ]_vars

\* A consumer was woken for an empty queue: every item is popped, nobody is
\* inside a call, and the mailbox is empty.
C16_Witness ==
    \E t \in Goroutines :
        /\ woken[t]
        /\ QLen = 0
        /\ Len(popped) = Len(appended)
        /\ Len(appended) = 2
        /\ lock = Unlocked
        /\ chanbuf[signal] = 0

\* --------------------------------------------------------------- C20
\* QueuePriority is an int: the values next to the four constants.
RawPriorities == (PriorityLow - 1)..(PriorityCritical + 1)

\* AppendPriority(data, p) with p outside the four constants.
AppendRawCall(t) == \E p \in RawPriorities \ Priorities : StartAppend(t, p)

RawNext ==
    \E t \in Threads :
        \/ AppendRawCall(t) \/ AppendPriorityCall(t)
        \/ AppendPush(t) \/ AppendSignal(t) \/ AppendUnlock(t)
        \/ NextCall(t) \/ NextPop(t) \/ NextDrain(t) \/ NextPrep(t) \/ NextUnlock(t)
        \/ LenCall(t) \/ LenRead(t) \/ LenUnlock(t)

RawSpec == Init /\ [][RawNext]_vars

\* C20: an append whose priority is none of the four constants changes no
\* level and not the total length, and the deposit that follows is made all
\* the same: after it the mailbox holds a token, also when the queue is empty.
C20_InvalidPriority ==
    [][ \A t \in Threads :
            /\ AppendPush(t) /\ arg[t][2] \notin Priorities =>
                UNCHANGED slices /\ QLen' = QLen
            /\ AppendSignal(t) => chanbuf'[signal] = 1
            /\ LenRead(t) => ret'[t] = <<Cardinality(Queued)>> ]_vars

\* Only appends with invalid priorities were made and nothing was popped:
\* the queue is empty, Len() reads 0, and a token is pending.
C20_Witness ==
    \E t \in Threads :
        /\ pc[t] = "len_unlock"
        /\ ret[t] = <<0>>
        /\ Len(appended) >= 1
        /\ \A i \in 1..Len(appended) : appended[i] \notin Priorities
        /\ popped = <<>>
        /\ QLen = 0
        /\ chanbuf[signal] = 1

\* --------------------------------------------------------------- C15
\* Goroutine 1 appends while every other goroutine polls with Next; nobody
\* receives from the channel, so only drain() can take a token away.
RaceAppend(t) ==
    /\ t \in Producers
    /\ \/ AppendCall(t) \/ AppendPriorityCall(t)
       \/ AppendPush(t) \/ AppendSignal(t) \/ AppendUnlock(t)

RacePoll(t) ==
    /\ t \in Consumers
    /\ \/ NextCall(t) \/ NextPop(t) \/ NextDrain(t) \/ NextPrep(t) \/ NextUnlock(t)

RaceNext == \E t \in Threads : RaceAppend(t) \/ RacePoll(t)

RaceSpec == Init /\ [][RaceNext]_vars

InAppend(t) == pc[t] \in {"append", "append_signal", "append_unlock"}

\* C15: from the emptiness check of a Next to the end of its drain the
\* queue stays empty and no append is under way; and whenever no call is
\* under way, every appended item either was returned by a Next or is in
\* the queue with a token in the mailbox.
C15_DrainKeepsWakeup ==
    /\ \A t \in Threads :
        (pc[t] = "next_drain" \/ (pc[t] = "next_unlock" /\ ret[t] = <<Nil, FALSE>>)) =>
            /\ QLen = 0
            /\ lock = t
            /\ \A u \in Threads : ~InAppend(u)
    /\ lock = Unlocked =>
        \A i \in 1..Len(appended) :
            \/ i \in PoppedFirst(Len(popped))
            \/ i \in Queued /\ chanbuf[signal] = 1

\* A Next is in its drain with a token left over from an earlier append
\* still in the mailbox, and the producer has an append yet to make.
C15_Witness ==
    \E t \in Consumers :
        /\ pc[t] = "next_drain"
        /\ chanbuf[signal] = 1
        /\ Len(popped) >= 1
        /\ Len(appended) < MaxAppends

\* --------------------------------------------------------------- C19
\* A goroutine inside a call (between Lock and the deferred Unlock).
InCall(t) == pc[t] # "idle"

\* The steps a goroutine takes while it holds the mutex.
LockedStep(t) ==
    \/ AppendPush(t) \/ AppendSignal(t) \/ AppendUnlock(t)
    \/ NextPop(t) \/ NextDrain(t) \/ NextPrep(t) \/ NextUnlock(t)
    \/ PeekRead(t) \/ PeekUnlock(t)
    \/ SignalPrep(t) \/ SignalUnlock(t)
    \/ LenRead(t) \/ LenUnlock(t)
    \/ EmptyRead(t) \/ EmptyUnlock(t)

\* C19: the mutex is held exactly by the goroutine that is inside a call,
\* and that goroutine always has a step it can take without waiting; a turn
\* of the drain loop that removes a token leaves the channel empty, so the
\* loop removes at most one; and every call that was started returns.
C19_CallsReturn ==
    /\ [](\A t \in Threads :
            /\ InCall(t) <=> lock = t
            /\ InCall(t) => ENABLED LockedStep(t))
    /\ [][ \A t \in Threads :
            NextDrain(t) /\ chanbuf'[signal] # chanbuf[signal] =>
                chanbuf[signal] = 1 /\ chanbuf'[signal] = 0 ]_vars
    /\ \A t \in Threads : InCall(t) ~> ~InCall(t)

\* Every item was appended and returned, and a Next that found the queue
\* empty holds the mutex in its drain loop with one token to remove.
C19_Witness ==
    \E t \in Threads :
        /\ lock = t
        /\ pc[t] = "next_drain"
        /\ chanbuf[signal] = 1
        /\ Len(appended) = MaxAppends
        /\ Len(popped) = MaxAppends

\* --------------------------------------------------------------- C11
\* One goroutine on its own: it appends, polls with Next, and calls Process
\* with a callback that leaves the queue alone.
Processors == {1}

SoloNext ==
    \E t \in Processors :
        \/ ctx[t] = "top" /\ (AppendCall(t) \/ AppendPriorityCall(t) \/ NextCall(t))
        \/ AppendPush(t) \/ AppendSignal(t) \/ AppendUnlock(t)
        \/ NextPop(t) \/ NextDrain(t) \/ NextPrep(t) \/ NextUnlock(t)
        \/ ProcessCallAlone(t) \/ ProcessNextCall(t)
        \/ ProcessNextUnlock(t) \/ ProcessLoopTest(t)
        \/ CallbackReturn(t)

SoloSpec == Init /\ [][SoloNext]_vars

\* C11: with nothing else running, the items Process has passed to its
\* callback are at every moment the leading part of the items that were in
\* the queue when it was called, in the order repeated Next calls return
\* them, and when Process returns it has passed on all of them, the queue is
\* empty and the mailbox holds no token.
C11_ProcessDrains ==
    [][ \A t \in Processors :
            /\ ctx'[t] = "callback" =>
                /\ Len(called') <= Len(procStart')
                /\ called' = SubSeq(procStart', 1, Len(called'))
            /\ ctx[t] # "top" /\ ctx'[t] = "top" =>
                /\ called = procStart
                /\ QLen' = 0
                /\ chanbuf'[signal] = 0 ]_vars

\* Process was called after (Low, 1), (Critical, 2), (Normal, 3); the
\* callback got 2, 3, 1, the last Next of the loop has returned not-found
\* and Process is about to return, with the queue and the mailbox empty.
C11_Witness ==
    \E t \in Processors :
        /\ ctx[t] = "process" /\ pc[t] = "process_loop"
        /\ ret[t] = <<Nil, FALSE>>
        /\ appended = <<PriorityLow, PriorityCritical, PriorityNormal>>
        /\ procStart = <<2, 3, 1>>
        /\ called = <<2, 3, 1>>
        /\ QLen = 0
        /\ chanbuf[signal] = 0

\* --------------------------------------------------------------- C17
\* Goroutine 1 appends and calls Process; its callback may call any
\* operation of the queue; the other goroutines append and poll with Next.
ProcTop(t) ==
    /\ t \in Processors /\ ctx[t] = "top"
    /\ (AppendCall(t) \/ AppendPriorityCall(t) \/ ProcessCall(t))

ProcCallback(t) ==
    /\ t \in Processors /\ ctx[t] = "callback"
    /\ \/ AppendCall(t) \/ AppendPriorityCall(t) \/ NextCall(t) \/ PeekCall(t)
       \/ LenCall(t) \/ EmptyCall(t) \/ SignalCall(t)
       \/ CallbackReturn(t)

ProcLoop(t) == ProcessNextCall(t) \/ ProcessNextUnlock(t) \/ ProcessLoopTest(t)

ProcOthers(t) ==
    /\ t \notin Processors
    /\ (AppendCall(t) \/ AppendPriorityCall(t) \/ NextCall(t))

ProcNext ==
    \E t \in Threads :
        ProcTop(t) \/ ProcCallback(t) \/ ProcLoop(t) \/ ProcOthers(t) \/ LockedStep(t)

ProcSpec == Init /\ [][ProcNext]_vars

\* The goroutine is in the body of the callback, between two statements.
InCallback(t) == ctx[t] = "callback" /\ pc[t] = "idle"

\* C17: while the callback runs, and in the loop between two Next calls
\* (before the callback is entered and after it returned), the goroutine
\* that called Process does not hold the mutex; the mutex is held
\* exactly from the Lock to the Unlock of a single call; so with the mutex
\* free the callback can start Next, Peek, Len, Empty and Signal (and an
\* append), any other goroutine can start a call, and a goroutine that holds
\* the mutex while the callback runs can take its next step.
C17_CallbackUnlocked ==
    \A t \in Threads :
        /\ InCallback(t) => lock # t
        /\ pc[t] \in {"process_next", "process_loop"} => lock # t
        /\ lock = t <=> pc[t] \notin {"idle", "process_next", "process_loop"}
        /\ InCallback(t) /\ lock = Unlocked =>
            /\ ENABLED NextCall(t) /\ ENABLED PeekCall(t) /\ ENABLED LenCall(t)
            /\ ENABLED EmptyCall(t) /\ ENABLED SignalCall(t)
            /\ Len(appended) < MaxAppends =>
                ENABLED AppendCall(t) /\ ENABLED AppendPriorityCall(t)
            /\ \A u \in Threads \ {t} : ENABLED NextCall(u)
        /\ InCallback(t) /\ lock # Unlocked => ENABLED LockedStep(lock)

\* The callback is running for the second item while another goroutine is
\* inside an append and holds the mutex.
C17_Witness ==
    \E t \in Processors, u \in Threads :
        /\ InCallback(t)
        /\ Len(called) = 2
        /\ lock = u
        /\ pc[u] = "append_signal"

\* --------------------------------------------------------------- C18
\* C18: Process returns only when the last Next of its own loop came back
\* not-found; that Next found all four levels empty under the mutex, and
\* every item appended before it, before or during the Process call, has by
\* then been passed to the callback or returned to another Next caller,
\* never both; each item a Next of the loop returns has the highest priority
\* among the items queued when it was taken, and it is that item the
\* callback is entered with, also when other goroutines appended or took
\* items after the Next unlocked.
C18_ProcessNotAtomic ==
    [][ \A t \in Processors :
            /\ ctx[t] # "top" /\ ctx'[t] = "top" =>
                /\ pc[t] = "process_loop" /\ ctx[t] = "process"
                /\ ret[t] = <<Nil, FALSE>>
            /\ ProcessNextUnlock(t) /\ ~ret[t][2] =>
                /\ QLen = 0
                /\ \A i \in 1..Len(appended) :
                    (i \in Elems(called)) # (i \in taken)
            /\ ProcessNextUnlock(t) /\ ret[t][2] =>
                /\ ret[t][1] \notin Elems(called) \cup taken
                /\ \A i \in Queued :
                    \/ LevelOf(i) < LevelOf(ret[t][1])
                    \/ LevelOf(i) = LevelOf(ret[t][1]) /\ i > ret[t][1]
            /\ ctx[t] = "process" /\ ctx'[t] = "callback" =>
                /\ called' = Append(called, ret[t][1])
                /\ ret[t][1] \notin Elems(called) \cup taken
            /\ Elems(called') \cap taken' = {} ]_vars

\* Item 1 is Low, item 2 is Critical: the callback got 1 and then 2, so 2
\* was appended while Process ran; the last Next of the loop came back
\* not-found, and item 3 was appended before Process has returned: Process
\* returns with an item queued.
C18_Witness ==
    \E t \in Processors :
        /\ ctx[t] = "process" /\ pc[t] = "process_loop"
        /\ ret[t] = <<Nil, FALSE>>
        /\ appended = <<PriorityLow, PriorityCritical, PriorityLow>>
        /\ called = <<1, 2>>
        /\ Queued = {3}
        /\ lock = Unlocked

\* ---------------------------------------------------------------- Spec
Next ==
    \E t \in Threads :
        \/ AppendCall(t) \/ AppendPriorityCall(t)
        \/ AppendPush(t) \/ AppendSignal(t) \/ AppendUnlock(t)
        \/ NextCall(t) \/ NextPop(t) \/ NextDrain(t) \/ NextPrep(t) \/ NextUnlock(t)
        \/ PeekCall(t) \/ PeekRead(t) \/ PeekUnlock(t)
        \/ SignalCall(t) \/ SignalPrep(t) \/ SignalUnlock(t)
        \/ LenCall(t) \/ LenRead(t) \/ LenUnlock(t)
        \/ EmptyCall(t) \/ EmptyRead(t) \/ EmptyUnlock(t)
        \/ Recv(t)

Spec == Init /\ [][Next]_vars

\* Goroutines call the operations of the interface; the scheduler runs a
\* goroutine that is inside a call, and nothing forces a goroutine to make
\* another call.
CallNext ==
    \E t \in Threads :
        \/ AppendCall(t) \/ AppendPriorityCall(t)
        \/ NextCall(t) \/ PeekCall(t) \/ SignalCall(t) \/ LenCall(t) \/ EmptyCall(t)
        \/ LockedStep(t)

FairSpec == Init /\ [][CallNext]_vars /\ \A t \in Threads : WF_vars(LockedStep(t))

====
